---- MODULE Spec2Model ----
(***************************************************************************)
(* ETL Deploy smoke runner (src/main.py): load settings.json, validate it, *)
(* print a redacted summary, exit with a status code.                      *)
(*                                                                         *)
(* JSON values are tagged records.  A printed line is a sequence of text   *)
(* tokens: the literal parts of the f-string and the rendered values, in   *)
(* the order they are printed.  "The output contains text x" is "x is a    *)
(* token of some line".  Writes to stdout and stderr are taken to succeed. *)
(***************************************************************************)
EXTENDS Integers, Sequences, FiniteSets, TLC

\* Longest "repos" list and longest "required_keys" list of the inputs.
MaxRepos == 2
MaxRequired == 3

---------------------------------------------------------------------------
(* JSON values as json.load returns them *)

Str(s) == [t |-> "str", s |-> s]
\* a number, carried as the decimal text str() gives for it
Num(s) == [t |-> "num", s |-> s]
List(items) == [t |-> "list", items |-> items]
Dict(fields) == [t |-> "dict", fields |-> fields]
\* Python None (also what JSON null loads as)
None == [t |-> "null"]

IsStr(v) == v.t = "str"
IsList(v) == v.t = "list"
IsDict(v) == v.t = "dict"

EmptyDict == [k \in {} |-> None]

\* dict.get(k, default)
Get(d, k, default) == IF k \in DOMAIN d THEN d[k] ELSE default

\* str(v) inside an f-string, for the scalar values the inputs hold
Render(v) ==
    CASE v.t = "str" -> v.s
      [] v.t = "num" -> v.s
      [] v.t = "null" -> "None"

\* str.strip() on the strings of the inputs: leading and trailing
\* whitespace removed
Strip(s) ==
    CASE s = " " -> ""
      [] s = "\t " -> ""
      [] s = " etl " -> "etl"
      [] OTHER -> s

\* ', '.join(seq): the elements with the separator between neighbours
RECURSIVE Join(_, _)
Join(seq, sep) ==
    IF Len(seq) = 0 THEN <<>>
    ELSE IF Len(seq) = 1 THEN <<seq[1]>>
    ELSE <<seq[1], sep>> \o Join(Tail(seq), sep)

\* Python's string order on the keys that the inputs put through sorted()
\* (code point order: upper case before lower case)
StrOrder == <<"API_KEY", "DB_PASS", "a", "b">>

Rank(s) == CHOOSE i \in 1..Len(StrOrder) : StrOrder[i] = s

StrLess(a, b) == Rank(a) < Rank(b)

\* sorted(iterable of strings), the iterable given as a set
RECURSIVE Sorted(_)
Sorted(S) ==
    IF S = {} THEN <<>>
    ELSE LET m == CHOOSE x \in S : \A y \in S \ {x} : StrLess(x, y)
         IN <<m>> \o Sorted(S \ {m})

---------------------------------------------------------------------------
(* Module constants *)

SETTINGS_FILE == "settings.json"

DEFAULT_REQUIRED_KEYS == <<"project", "instance", "repos", "secrets">>

---------------------------------------------------------------------------
(* load_settings *)

SystemExit(code) == [type |-> "SystemExit", code |-> code]
Exception(name) == [type |-> "Exception", code |-> 0, name |-> name]
NoException == [type |-> "none", code |-> 0]

\* The settings file: how the path and its bytes behave under the calls of
\* load_settings.  kind is
\*   "absent"       path.exists() is false
\*   "unreadable"   open/read raises OSError
\*   "undecodable"  the bytes are not UTF-8: the read raises
\*                  UnicodeDecodeError (a ValueError, not an OSError and not
\*                  a JSONDecodeError)
\*   "malformed"    json.load raises JSONDecodeError
\*   "json"         json.load returns data
File(kind, data) == [kind |-> kind, data |-> data]

\* What load_settings does on file f: the line it prints to stderr (<<>> if
\* none), the exception it raises (NoException if it returns) and the value
\* it returns.
load_settings(f) ==
    IF f.kind = "absent" THEN
        [err |-> <<"[ERROR] Settings file not found: ", "/cwd/", SETTINGS_FILE>>,
         raise |-> SystemExit(2), data |-> None]
    ELSE IF f.kind = "malformed" THEN
        [err |-> <<"[ERROR] Invalid JSON in ", SETTINGS_FILE, ": ", "Expecting value">>,
         raise |-> SystemExit(2), data |-> None]
    ELSE IF f.kind = "unreadable" THEN
        [err |-> <<"[ERROR] Cannot read ", SETTINGS_FILE, ": ", "Permission denied">>,
         raise |-> SystemExit(2), data |-> None]
    ELSE IF f.kind = "undecodable" THEN
        [err |-> <<>>, raise |-> Exception("UnicodeDecodeError"), data |-> None]
    ELSE IF ~IsDict(f.data) THEN
        [err |-> <<"[ERROR] Root of ", SETTINGS_FILE, " must be a JSON object (dict).">>,
         raise |-> SystemExit(2), data |-> None]
    ELSE
        [err |-> <<>>, raise |-> NoException, data |-> f.data.fields]

---------------------------------------------------------------------------
(* coalesce_required_keys *)

\* DedupLoop without the "if k not in seen" test
DedupLoopKeepsRepeats(rk, seen, ordered) == ordered \o rk

\* the de-duplication loop: rk is the part of the list still to scan
RECURSIVE DedupLoop(_, _, _)
DedupLoop(rk, seen, ordered) ==
    IF rk = <<>> THEN ordered
    ELSE LET k == Head(rk) IN
         IF k \notin seen
         THEN DedupLoop(Tail(rk), seen \cup {k}, Append(ordered, k))
         ELSE DedupLoop(Tail(rk), seen, ordered)

coalesce_required_keys(cfg) ==
    LET rk == Get(cfg, "required_keys", None) IN
    IF IsList(rk) /\ \A i \in DOMAIN rk.items : IsStr(rk.items[i])
    THEN DedupLoop([i \in DOMAIN rk.items |-> rk.items[i].s], {}, <<>>)
    ELSE DEFAULT_REQUIRED_KEYS

---------------------------------------------------------------------------
(* validate_settings *)

\* MissingKeys stopping at the first absent key
MissingKeysFirstOnly(cfg, required) ==
    LET m == SelectSeq(required, LAMBDA k : k \notin DOMAIN cfg) IN
    IF m = <<>> THEN m ELSE <<Head(m)>>

\* missing = [k for k in required if k not in cfg]
MissingKeys(cfg, required) == SelectSeq(required, LAMBDA k : k \notin DOMAIN cfg)

MissingKeysError(missing) ==
    <<"[ERROR] Missing required keys in settings.json: ">> \o Join(missing, ", ")

\* REPO_FIELDS with the two fields swapped
REPO_FIELDS_UrlFirst == <<"url", "name">>

REPO_FIELDS == <<"name", "url">>

\* the condition of the inner loop on field key of repo object r
BadField(r, key) ==
    \/ key \notin DOMAIN r.fields
    \/ ~IsStr(r.fields[key])
    \/ Strip(r.fields[key].s) = ""

\* for key in ("name", "url"): the error line of the first bad field, <<>>
\* if the loop ends without one
RECURSIVE FieldLoop(_, _, _)
FieldLoop(r, i, keys) ==
    IF keys = <<>> THEN <<>>
    ELSE IF BadField(r, Head(keys))
         THEN <<"[ERROR] repos[", ToString(i), "].", Head(keys),
                " must be a non-empty string.">>
         ELSE FieldLoop(r, i, Tail(keys))

\* ReposLoop leaving the loop after the element at index i
ReposLoopOneElement(repos, i) ==
    IF i >= Len(repos) THEN <<>>
    ELSE LET r == repos[i + 1] IN
         IF ~IsDict(r)
         THEN <<"[ERROR] repos[", ToString(i), "] must be an object.">>
         ELSE FieldLoop(r, i, REPO_FIELDS)

\* for i, r in enumerate(repos), from index i on: the error line of the
\* first violation, <<>> if the loop ends without one
RECURSIVE ReposLoop(_, _)
ReposLoop(repos, i) ==
    IF i >= Len(repos) THEN <<>>
    ELSE LET r == repos[i + 1] IN
         IF ~IsDict(r)
         THEN <<"[ERROR] repos[", ToString(i), "] must be an object.">>
         ELSE LET e == FieldLoop(r, i, REPO_FIELDS) IN
              IF e # <<>> THEN e ELSE ReposLoop(repos, i + 1)

\* the "repos" block of validate_settings: its error line, <<>> if it passes
CheckRepos(cfg) ==
    IF "repos" \in DOMAIN cfg THEN
        IF ~IsList(cfg["repos"]) THEN <<"[ERROR] 'repos' must be a list.">>
        ELSE ReposLoop(cfg["repos"].items, 0)
    ELSE <<>>

\* CheckSecrets with the "not" of the isinstance test dropped
CheckSecretsInverted(cfg) ==
    IF "secrets" \in DOMAIN cfg /\ IsDict(cfg["secrets"])
    THEN <<"[ERROR] 'secrets' must be an object (dict).">>
    ELSE <<>>

\* the "secrets" block of validate_settings
CheckSecrets(cfg) ==
    IF "secrets" \in DOMAIN cfg /\ ~IsDict(cfg["secrets"])
    THEN <<"[ERROR] 'secrets' must be an object (dict).">>
    ELSE <<>>

---------------------------------------------------------------------------
(* summarize_settings: the lines it prints *)

CONVENTIONAL_KEYS == {"project", "instance", "repos", "secrets", "required_keys"}

\* RepoLine with another default branch
RepoLineDefaultMaster(r) ==
    <<"  - ", Render(Get(r.fields, "name", Str("<noname>"))),
      " :: ", Render(Get(r.fields, "url", Str("<nourl>"))),
      " @ ", Render(Get(r.fields, "branch", Str("master")))>>

RepoLine(r) ==
    <<"  - ", Render(Get(r.fields, "name", Str("<noname>"))),
      " :: ", Render(Get(r.fields, "url", Str("<nourl>"))),
      " @ ", Render(Get(r.fields, "branch", Str("main")))>>

\* for r in repos: one line for each element that is a dict
RECURSIVE RepoLines(_)
RepoLines(repos) ==
    IF repos = <<>> THEN <<>>
    ELSE (IF IsDict(Head(repos)) THEN <<RepoLine(Head(repos))>> ELSE <<>>)
         \o RepoLines(Tail(repos))

ReposSection(cfg) ==
    LET repos == Get(cfg, "repos", List(<<>>)) IN
    IF IsList(repos)
    THEN <<<<"Repos:    ", ToString(Len(repos.items))>>>> \o RepoLines(repos.items)
    ELSE <<<<"Repos:    <invalid type>">>>>

\* SecretsSection printing the items of the mapping instead of its keys
SecretsSectionWithValues(cfg) ==
    LET secrets == Get(cfg, "secrets", Dict(EmptyDict)) IN
    IF IsDict(secrets)
    THEN <<<<"Secrets:  ", ToString(Cardinality(DOMAIN secrets.fields)), " keys">>>>
         \o (IF DOMAIN secrets.fields # {}
             THEN <<<<"  keys: ">>
                    \o Join([i \in DOMAIN Sorted(DOMAIN secrets.fields) |->
                               Render(secrets.fields[Sorted(DOMAIN secrets.fields)[i]])],
                            ", ")>>
             ELSE <<>>)
    ELSE <<<<"Secrets:  <invalid type>">>>>

SecretsSection(cfg) ==
    LET secrets == Get(cfg, "secrets", Dict(EmptyDict)) IN
    IF IsDict(secrets)
    THEN <<<<"Secrets:  ", ToString(Cardinality(DOMAIN secrets.fields)), " keys">>>>
         \o (IF DOMAIN secrets.fields # {}
             THEN <<<<"  keys: ">> \o Join(Sorted(DOMAIN secrets.fields), ", ")>>
             ELSE <<>>)
    ELSE <<<<"Secrets:  <invalid type>">>>>

OtherKeysSection(cfg) ==
    LET extra == Sorted(DOMAIN cfg \ CONVENTIONAL_KEYS) IN
    IF extra # <<>>
    THEN <<<<"Other keys: ">> \o Join(extra, ", ")>>
    ELSE <<>>

summarize_settings(cfg) ==
    <<<<"=== ETL Deploy :: Settings Summary ===">>,
      <<"Project:  ", Render(Get(cfg, "project", Str("<unknown>")))>>,
      <<"Instance: ", Render(Get(cfg, "instance", Str("<unknown>")))>>>>
    \o ReposSection(cfg)
    \o SecretsSection(cfg)
    \o OtherKeysSection(cfg)
    \o <<<<"=== End Summary ===">>>>

---------------------------------------------------------------------------
(* The inputs *)

\* a key that may be absent or hold one of Vals
Opt(key, Vals) == {EmptyDict} \cup {key :> v : v \in Vals}

\* lists of length at most n over S
SeqsUpTo(S, n) == UNION {[1..m -> S] : m \in 0..n}

ValidRepo == Dict("name" :> Str("etl") @@ "url" :> Str("git://etl"))
ValidRepoDev ==
    Dict("name" :> Str("load") @@ "url" :> Str("git://load") @@ "branch" :> Str("dev"))

\* elements of a "repos" list: a non-object, objects with each kind of bad
\* name (absent, not a string, empty, whitespace-only), with a bad url, with
\* both bad, and valid objects with and without branch
RepoElems ==
    { Num("7"),
      Dict(EmptyDict),
      Dict("name" :> Num("7") @@ "url" :> Str("git://etl")),
      Dict("name" :> Str("") @@ "url" :> Str("")),
      Dict("name" :> Str(" ") @@ "url" :> Str("git://etl")),
      Dict("name" :> Str("etl")),
      Dict("name" :> Str("etl") @@ "url" :> Str("\t ")),
      ValidRepo,
      ValidRepoDev }

ReposVals == {Str("git://etl")} \cup {List(s) : s \in SeqsUpTo(RepoElems, MaxRepos)}

SecretValues == {Str("topsecret"), Str("hunter2")}

SecretsVals ==
    {List(<<>>)} \cup
    {Dict(a @@ d) : a \in Opt("API_KEY", SecretValues), d \in Opt("DB_PASS", {Str("hunter2")})}

RequiredAlphabet == {"instance", "a", "b"}

RequiredKeysVals ==
    {Str("instance"), List(<<Str("a"), Num("7")>>)} \cup
    {List([i \in DOMAIN s |-> Str(s[i])]) : s \in SeqsUpTo(RequiredAlphabet, MaxRequired)}

Cfgs(P, I, R, S, K, A, B) ==
    {p @@ i @@ r @@ s @@ k @@ a @@ b :
        p \in Opt("project", P), i \in Opt("instance", I), r \in Opt("repos", R),
        s \in Opt("secrets", S), k \in Opt("required_keys", K),
        a \in Opt("a", A), b \in Opt("b", B)}

\* configurations that vary the required_keys override and the keys present
KeyCfgs ==
    Cfgs({Str("acme")}, {Str("prod")},
         {List(<<>>), List(<<Dict(EmptyDict)>>)},
         {Dict(EmptyDict), List(<<>>)},
         RequiredKeysVals, {Num("1")}, {Num("2")})

\* configurations that vary the repos list
RepoCfgs ==
    Cfgs({Str("acme")}, {Str("prod")},
         ReposVals,
         {Dict("API_KEY" :> Str("topsecret")), List(<<>>)},
         {List(<<Str("instance")>>)}, {}, {})

\* configurations that vary the secrets mapping and the values printed
SecretCfgs ==
    Cfgs({Str("acme"), Str("hunter2")}, {Str("prod")},
         {List(<<ValidRepo>>), Str("git://etl")},
         SecretsVals,
         {List(<<Str("instance")>>)}, {Num("1")}, {Num("2")})

Configurations == KeyCfgs \cup RepoCfgs \cup SecretCfgs

Files ==
    {File(k, None) : k \in {"absent", "unreadable", "undecodable", "malformed"}}
    \cup {File("json", v) : v \in {List(<<>>), Str("acme"), None}}
    \cup {File("json", Dict(c)) : c \in Configurations}

---------------------------------------------------------------------------
(* main *)

VARIABLES
    file,       \* the settings file
    pc,         \* where main is
    cfg,        \* main's cfg (the fields of the root object) once loaded
    required,   \* validate_settings' required once computed
    exc,        \* the exception in flight
    stdout,     \* lines written to stdout
    stderr,     \* lines written to stderr
    exitCode,   \* the process's exit code, -1 while it runs
    ran         \* the stages that have run, in order

vars == <<file, pc, cfg, required, exc, stdout, stderr, exitCode, ran>>

Init ==
    /\ file \in Files
    /\ pc = "load"
    /\ cfg = EmptyDict
    /\ required = <<>>
    /\ exc = NoException
    /\ stdout = <<>>
    /\ stderr = <<>>
    /\ exitCode = -1
    /\ ran = <<>>

\* cfg = load_settings(SETTINGS_FILE)
LoadSettings ==
    /\ pc = "load"
    /\ LET res == load_settings(file) IN
       /\ stderr' = IF res.err # <<>> THEN Append(stderr, res.err) ELSE stderr
       /\ exc' = res.raise
       /\ cfg' = IF res.raise = NoException THEN res.data ELSE cfg
       /\ pc' = IF res.raise = NoException THEN "presence" ELSE "except"
    /\ ran' = Append(ran, "load")
    /\ UNCHANGED <<file, required, stdout, exitCode>>

\* ValidatePresence that reports the missing keys and goes on validating
ValidatePresenceGoesOn ==
    /\ pc = "presence"
    /\ required' = coalesce_required_keys(cfg)
    /\ LET missing == MissingKeys(cfg, required') IN
       stderr' = IF missing # <<>>
                 THEN Append(stderr, MissingKeysError(missing)) ELSE stderr
    /\ pc' = "repos"
    /\ ran' = Append(ran, "presence")
    /\ UNCHANGED <<file, cfg, exc, stdout, exitCode>>

\* validate_settings, required keys and presence check
ValidatePresence ==
    /\ pc = "presence"
    /\ required' = coalesce_required_keys(cfg)
    /\ LET missing == MissingKeys(cfg, required') IN
       IF missing # <<>>
       THEN /\ stderr' = Append(stderr, MissingKeysError(missing))
            /\ exc' = SystemExit(3)
            /\ pc' = "except"
       ELSE /\ pc' = "repos"
            /\ UNCHANGED <<stderr, exc>>
    /\ ran' = Append(ran, "presence")
    /\ UNCHANGED <<file, cfg, stdout, exitCode>>

\* validate_settings, the repos block
ValidateRepos ==
    /\ pc = "repos"
    /\ LET e == CheckRepos(cfg) IN
       IF e # <<>>
       THEN /\ stderr' = Append(stderr, e)
            /\ exc' = SystemExit(3)
            /\ pc' = "except"
       ELSE /\ pc' = "secrets"
            /\ UNCHANGED <<stderr, exc>>
    /\ ran' = Append(ran, "repos")
    /\ UNCHANGED <<file, cfg, required, stdout, exitCode>>

\* validate_settings, the secrets block
ValidateSecrets ==
    /\ pc = "secrets"
    /\ LET e == CheckSecrets(cfg) IN
       IF e # <<>>
       THEN /\ stderr' = Append(stderr, e)
            /\ exc' = SystemExit(3)
            /\ pc' = "except"
       ELSE /\ pc' = "summarize"
            /\ UNCHANGED <<stderr, exc>>
    /\ ran' = Append(ran, "secrets")
    /\ UNCHANGED <<file, cfg, required, stdout, exitCode>>

\* summarize_settings(cfg)
SummarizeSettings ==
    /\ pc = "summarize"
    /\ stdout' = stdout \o summarize_settings(cfg)
    /\ pc' = "ok"
    /\ ran' = Append(ran, "summarize")
    /\ UNCHANGED <<file, cfg, required, exc, stderr, exitCode>>

\* print("[OK] ..."); return 0
PrintOk ==
    /\ pc = "ok"
    /\ stdout' = Append(stdout, <<"[OK] Smoke run completed successfully.">>)
    /\ exitCode' = 0
    /\ pc' = "exited"
    /\ ran' = Append(ran, "ok")
    /\ UNCHANGED <<file, cfg, required, exc, stderr>>

\* the SystemExit handled like any other exception
ReraisedAsUnexpected(e) == 4

\* the exit code main's "except SystemExit as e: raise e" ends the run with
ReraisedCode(e) == e.code

\* except SystemExit as e: raise e
ExceptSystemExit ==
    /\ pc = "except"
    /\ exc.type = "SystemExit"
    /\ exitCode' = ReraisedCode(exc)
    /\ pc' = "exited"
    /\ UNCHANGED <<file, cfg, required, exc, stdout, stderr, ran>>

\* except Exception: print, traceback.print_exc(), return 4
ExceptException ==
    /\ pc = "except"
    /\ exc.type = "Exception"
    /\ stderr' = stderr \o <<<<"[ERROR] Unexpected exception:">>,
                             <<"Traceback (most recent call last):">>,
                             <<exc.name>>>>
    /\ exitCode' = 4
    /\ pc' = "exited"
    /\ UNCHANGED <<file, cfg, required, exc, stdout, ran>>

Next ==
    \/ LoadSettings
    \/ ValidatePresence
    \/ ValidateRepos
    \/ ValidateSecrets
    \/ SummarizeSettings
    \/ PrintOk
    \/ ExceptSystemExit
    \/ ExceptException

Spec == Init /\ [][Next]_vars

---------------------------------------------------------------------------
(* summarize_settings called on its own, on any configuration (validated or
   not) *)

InitSummarize ==
    /\ cfg \in Configurations
    /\ file = File("json", Dict(cfg))
    /\ pc = "call"
    /\ required = <<>>
    /\ exc = NoException
    /\ stdout = <<>>
    /\ stderr = <<>>
    /\ exitCode = -1
    /\ ran = <<>>

CallSummarize ==
    /\ pc = "call"
    /\ stdout' = stdout \o summarize_settings(cfg)
    /\ pc' = "returned"
    /\ ran' = Append(ran, "summarize")
    /\ UNCHANGED <<file, cfg, required, exc, stderr, exitCode>>

NextSummarize == CallSummarize

SpecSummarize == InitSummarize /\ [][NextSummarize]_vars

---------------------------------------------------------------------------
(* Vocabulary of the properties *)

Range(seq) == {seq[i] : i \in DOMAIN seq}

\* stage has run
Ran(stage) == stage \in Range(ran)

\* the text tokens of a sequence of lines
Tokens(lines) == UNION {Range(lines[i]) : i \in DOMAIN lines}

Exited == pc = "exited"

\* x comes before y in seq (both occur in it)
Before(seq, x, y) ==
    \E i, j \in DOMAIN seq : i < j /\ seq[i] = x /\ seq[j] = y
                             /\ \A h \in 1..(j - 1) : seq[h] # y

\* line is prefix followed by exactly the elements of set S, each once,
\* separated by ", ", in the order given by Earlier(_, _)
ListsExactly(line, prefix, S, Earlier(_, _)) ==
    LET n == Cardinality(S) IN
    /\ n > 0
    /\ Len(line) = 2 * n
    /\ line[1] = prefix
    /\ {line[2 * i] : i \in 1..n} = S
    /\ \A i \in 1..(n - 1) : line[2 * i + 1] = ", "
    /\ \A i, j \in 1..n : i < j => Earlier(line[2 * i], line[2 * j])

WhitespaceOnly == {" ", "\t "}

\* field key of repo object r is absent, not a string, empty or
\* whitespace-only
FieldViolation(r, key) ==
    \/ key \notin DOMAIN r.fields
    \/ r.fields[key].t # "str"
    \/ r.fields[key].s = ""
    \/ r.fields[key].s \in WhitespaceOnly

ElementViolation(r) ==
    r.t # "dict" \/ FieldViolation(r, "name") \/ FieldViolation(r, "url")

---------------------------------------------------------------------------
(* C1 *)

HasStringListOverride ==
    /\ "required_keys" \in DOMAIN cfg
    /\ cfg["required_keys"].t = "list"
    /\ \A i \in DOMAIN cfg["required_keys"].items : cfg["required_keys"].items[i].t = "str"

OverrideStrings ==
    [i \in DOMAIN cfg["required_keys"].items |-> cfg["required_keys"].items[i].s]

\* out holds the elements of inp, each once, ordered by first occurrence
FirstOccurrences(out, inp) ==
    /\ Range(out) = Range(inp)
    /\ \A i, j \in DOMAIN out : i < j => out[i] # out[j] /\ Before(inp, out[i], out[j])

\* inp without the elements that occurred at a lower index
WithoutRepeats(inp) ==
    LET keep == {i \in DOMAIN inp : \A j \in 1..(i - 1) : inp[j] # inp[i]}
        nth[k \in 1..Cardinality(keep)] ==
            CHOOSE i \in keep : Cardinality({h \in keep : h < i}) = k - 1
    IN [k \in 1..Cardinality(keep) |-> inp[nth[k]]]

\* validate_settings as a whole: the error line, <<>> if it passes
validate_settings(c) ==
    LET missing == MissingKeys(c, coalesce_required_keys(c)) IN
    IF missing # <<>> THEN MissingKeysError(missing)
    ELSE IF CheckRepos(c) # <<>> THEN CheckRepos(c)
    ELSE CheckSecrets(c)

\* the outcome of main on a loaded configuration c
main_outcome(c) ==
    LET e == validate_settings(c) IN
    IF e # <<>>
    THEN [exitCode |-> 3, stderr |-> <<e>>, stdout |-> <<>>]
    ELSE [exitCode |-> 0, stderr |-> <<>>,
          stdout |-> summarize_settings(c)
                     \o <<<<"[OK] Smoke run completed successfully.">>>>]

\* C1: once validate_settings has computed the required keys of a loaded
\* configuration, they are the required_keys list without repeats in
\* first-occurrence order when that field is a list of strings, and the
\* default sequence project, instance, repos, secrets in every other case;
\* the override replaces the defaults (only instance required and present:
\* exit 0) and a run with repeats in the override ends as the run on the
\* same configuration with the repeats removed.
C1_RequiredKeys ==
    Ran("presence") =>
        /\ IF HasStringListOverride
           THEN FirstOccurrences(required, OverrideStrings)
           ELSE required = <<"project", "instance", "repos", "secrets">>
        /\ (/\ Exited
            /\ DOMAIN cfg = {"instance", "required_keys"}
            /\ cfg["required_keys"] = List(<<Str("instance")>>)) => exitCode = 0
        /\ (Exited /\ HasStringListOverride) =>
              [exitCode |-> exitCode, stderr |-> stderr, stdout |-> stdout]
                = main_outcome([cfg EXCEPT !["required_keys"] =
                      List([i \in DOMAIN WithoutRepeats(OverrideStrings) |->
                              Str(WithoutRepeats(OverrideStrings)[i])])])

C1_Witness ==
    /\ Exited
    /\ HasStringListOverride
    /\ OverrideStrings = <<"a", "a", "b">>
    /\ required = <<"a", "b">>

---------------------------------------------------------------------------
(* C2 *)

AbsentRequired == {k \in Range(required) : k \notin DOMAIN cfg}

\* C2: when some key of the required sequence is not a top-level key of the
\* loaded configuration, the run ends with exit code 3 and one error line
\* that lists exactly the absent required keys, each once, in the order of
\* the required sequence, comma-joined; no shape check has run.
C2_MissingKeys ==
    (Ran("presence") /\ AbsentRequired # {}) =>
        /\ exc = SystemExit(3)
        /\ Exited => exitCode = 3
        /\ Len(stderr) = 1
        /\ ListsExactly(stderr[1], "[ERROR] Missing required keys in settings.json: ",
                        AbsentRequired, LAMBDA x, y : Before(required, x, y))
        /\ stdout = <<>>
        /\ ran = <<"load", "presence">>

\* two keys missing, in an order that is not the sorted one, and a
\* malformed repos beside them
C2_Witness ==
    /\ Exited
    /\ exitCode = 3
    /\ required = <<"b", "instance", "a">>
    /\ AbsentRequired = {"a", "b"}
    /\ "repos" \in DOMAIN cfg
    /\ cfg["repos"].t = "list"
    /\ \E i \in DOMAIN cfg["repos"].items : ElementViolation(cfg["repos"].items[i])

---------------------------------------------------------------------------
(* C4 *)

ReposItems == cfg["repos"].items

FirstViolation == CHOOSE i \in DOMAIN ReposItems :
    /\ ElementViolation(ReposItems[i])
    /\ \A j \in 1..(i - 1) : ~ElementViolation(ReposItems[j])

\* the line that reports the violation at list position i (index i - 1)
ViolationLine(i) ==
    IF ReposItems[i].t # "dict"
    THEN <<"[ERROR] repos[", ToString(i - 1), "] must be an object.">>
    ELSE <<"[ERROR] repos[", ToString(i - 1), "].",
           IF FieldViolation(ReposItems[i], "name") THEN "name" ELSE "url",
           " must be a non-empty string.">>

\* C4: for a configuration that passed the presence check and holds a list
\* under repos, a list with a violating element makes the run end with exit
\* code 3 and exactly one error line, the one for the lowest violating
\* index and there "not an object" before name before url; a list without
\* violation produces no repos error.
C4_FirstReposViolation ==
    (Ran("repos") /\ "repos" \in DOMAIN cfg /\ cfg["repos"].t = "list") =>
        IF \E i \in DOMAIN ReposItems : ElementViolation(ReposItems[i])
        THEN /\ stderr = <<ViolationLine(FirstViolation)>>
             /\ exc = SystemExit(3)
             /\ Exited => exitCode = 3
             /\ ~Ran("secrets")
        ELSE /\ \A i \in DOMAIN stderr : stderr[i][1] # "[ERROR] repos["
             /\ pc = "secrets" \/ Ran("secrets")

\* a valid element first, then one whose name and url are both bad: index 1
\* and field name are reported
C4_Witness ==
    /\ Exited
    /\ "repos" \in DOMAIN cfg
    /\ cfg["repos"].t = "list"
    /\ Len(ReposItems) = 2
    /\ ~ElementViolation(ReposItems[1])
    /\ ReposItems[2].t = "dict"
    /\ FieldViolation(ReposItems[2], "name")
    /\ FieldViolation(ReposItems[2], "url")
    /\ stderr = <<<<"[ERROR] repos[", "1", "].", "name", " must be a non-empty string.">>>>

---------------------------------------------------------------------------
(* The summary, stated line by line *)

\* the elements of S in ascending string order
AscendingSeq(S) ==
    CHOOSE q \in [1..Cardinality(S) -> S] :
        /\ Range(q) = S
        /\ \A i, j \in DOMAIN q : i < j => Before(StrOrder, q[i], q[j])

\* q[1], ", ", q[2], ", ", ..., q[n]
CommaJoined(q) ==
    [i \in 1..(2 * Len(q) - 1) |-> IF i % 2 = 1 THEN q[(i + 1) \div 2] ELSE ", "]

HasReposList == "repos" \in DOMAIN cfg /\ cfg["repos"].t = "list"

HasSecretsMapping == "secrets" \in DOMAIN cfg /\ cfg["secrets"].t = "dict"

\* the text of field key of repo object r, or else the placeholder
FieldText(r, key, placeholder) ==
    IF key \in DOMAIN r.fields THEN r.fields[key].s ELSE placeholder

ExpectedRepoLine(r) ==
    <<"  - ", FieldText(r, "name", "<noname>"), " :: ", FieldText(r, "url", "<nourl>"),
      " @ ", FieldText(r, "branch", "main")>>

\* one line for each element of repos that is an object, in list order
ObjectRepoLines ==
    IF HasReposList
    THEN LET objs == SelectSeq(ReposItems, LAMBDA r : r.t = "dict")
         IN [i \in DOMAIN objs |-> ExpectedRepoLine(objs[i])]
    ELSE <<>>

ExpectedHead ==
    <<<<"=== ETL Deploy :: Settings Summary ===">>,
      <<"Project:  ", IF "project" \in DOMAIN cfg THEN cfg["project"].s ELSE "<unknown>">>,
      <<"Instance: ", IF "instance" \in DOMAIN cfg THEN cfg["instance"].s ELSE "<unknown>">>>>

ExpectedRepos ==
    IF "repos" \notin DOMAIN cfg THEN <<<<"Repos:    ", "0">>>>
    ELSE IF HasReposList
         THEN <<<<"Repos:    ", ToString(Len(ReposItems))>>>> \o ObjectRepoLines
         ELSE <<<<"Repos:    <invalid type>">>>>

SecretKeys == IF HasSecretsMapping THEN DOMAIN cfg["secrets"].fields ELSE {}

SecretsCountLine == <<"Secrets:  ", ToString(Cardinality(SecretKeys)), " keys">>

SecretsKeysLine == <<"  keys: ">> \o CommaJoined(AscendingSeq(SecretKeys))

ExpectedSecrets ==
    IF "secrets" \in DOMAIN cfg /\ ~HasSecretsMapping
    THEN <<<<"Secrets:  <invalid type>">>>>
    ELSE <<SecretsCountLine>> \o (IF SecretKeys # {} THEN <<SecretsKeysLine>> ELSE <<>>)

OtherKeys == DOMAIN cfg \ {"project", "instance", "repos", "secrets", "required_keys"}

ExpectedOther ==
    IF OtherKeys # {}
    THEN <<<<"Other keys: ">> \o CommaJoined(AscendingSeq(OtherKeys))>>
    ELSE <<>>

ExpectedSummary ==
    ExpectedHead \o ExpectedRepos \o ExpectedSecrets \o ExpectedOther
    \o <<<<"=== End Summary ===">>>>

---------------------------------------------------------------------------
(* C3 *)

\* the values stored in the secrets mapping, as text
SecretTexts == {cfg["secrets"].fields[k].s : k \in SecretKeys}

\* cfg with every value of the secrets mapping replaced by the same text
Redacted ==
    IF HasSecretsMapping
    THEN [cfg EXCEPT !["secrets"] = Dict([k \in SecretKeys |-> Str("***")])]
    ELSE cfg

\* the texts the summary prints for a reason other than being under secrets
PrintedElsewhere ==
    {cfg[k].s : k \in {"project", "instance"} \cap DOMAIN cfg}
    \cup UNION {Range(ObjectRepoLines[i]) : i \in DOMAIN ObjectRepoLines}
    \cup SecretKeys \cup OtherKeys

---------------------------------------------------------------------------
(* C5 *)

DefaultKeysPresent == {"project", "instance", "repos", "secrets"} \subseteq DOMAIN cfg

NonEmptyString(r, key) ==
    key \in DOMAIN r.fields /\ r.fields[key].t = "str" /\ r.fields[key].s # ""

\* valid as C5 puts it: repos a list of objects with non-empty string name
\* and url, secrets an object
ValidAsStated ==
    /\ HasReposList
    /\ \A i \in DOMAIN ReposItems :
          /\ ReposItems[i].t = "dict"
          /\ NonEmptyString(ReposItems[i], "name")
          /\ NonEmptyString(ReposItems[i], "url")
    /\ HasSecretsMapping

\* the shape the validator accepts
WellShaped ==
    /\ "repos" \in DOMAIN cfg =>
          HasReposList /\ \A i \in DOMAIN ReposItems : ~ElementViolation(ReposItems[i])
    /\ "secrets" \in DOMAIN cfg => HasSecretsMapping

SummaryShowsProjectAndInstance ==
    /\ <<"Project:  ", cfg["project"].s>> \in Range(stdout)
    /\ <<"Instance: ", cfg["instance"].s>> \in Range(stdout)

---------------------------------------------------------------------------
(* C6 *)

LoaderFailure == file.kind # "json" \/ file.data.t # "dict"

ErrorLineStarts ==
    { "[ERROR] Settings file not found: ", "[ERROR] Invalid JSON in ",
      "[ERROR] Cannot read ", "[ERROR] Root of ",
      "[ERROR] Missing required keys in settings.json: ",
      "[ERROR] 'repos' must be a list.", "[ERROR] repos[",
      "[ERROR] 'secrets' must be an object (dict).",
      "[ERROR] Unexpected exception:" }

IsErrorLine(line) == Len(line) > 0 /\ line[1] \in ErrorLineStarts

\* C6: a run whose load fails (no file, bytes that do not parse as JSON, a
\* read error, a root that is no object) ends with exit code 2 after one
\* [ERROR] line on stderr, with nothing on stdout and neither the validator
\* nor the summarizer run.
C6_LoaderFailureExits2 ==
    (Exited /\ LoaderFailure) =>
        /\ exitCode = 2
        /\ Len(stderr) = 1
        /\ IsErrorLine(stderr[1])
        /\ stdout = <<>>
        /\ ran = <<"load">>

---------------------------------------------------------------------------
(* C7 *)

---------------------------------------------------------------------------
(* C8 *)

StageOrder == <<"load", "presence", "repos", "secrets", "summarize", "ok">>

IsPrefix(s, t) == Len(s) <= Len(t) /\ \A i \in DOMAIN s : s[i] = t[i]

ReposMalformed ==
    "repos" \in DOMAIN cfg /\
        (~HasReposList \/ \E i \in DOMAIN ReposItems : ElementViolation(ReposItems[i]))

SecretsMalformed == "secrets" \in DOMAIN cfg /\ ~HasSecretsMapping

OkLine == <<"[OK] Smoke run completed successfully.">>

\* C8: the stages run in the order load, presence check, repos check,
\* secrets check, summary, [OK]; no stage runs after an error; a run ending
\* with exit code 2 or 3 has written one [ERROR] line to stderr and nothing
\* to stdout; with repos and secrets both malformed only the repos
\* violation is reported; the summary and the [OK] line are on stdout only
\* in a run that ends with exit code 0.
C8_StagesStopAtFirstError ==
    /\ IsPrefix(ran, StageOrder)
    /\ exc.type # "none" => pc \in {"except", "exited"}
    /\ (Exited /\ exitCode \in {2, 3}) =>
          Len(stderr) = 1 /\ IsErrorLine(stderr[1]) /\ stdout = <<>>
    /\ (Ran("repos") /\ ReposMalformed /\ SecretsMalformed) =>
          /\ Len(stderr) = 1
          /\ stderr[1][1] \in {"[ERROR] 'repos' must be a list.", "[ERROR] repos["}
          /\ ~Ran("secrets")
    /\ stdout # <<>> =>
          /\ Ran("summarize")
          /\ stderr = <<>>
          /\ Exited => exitCode = 0
    /\ OkLine \in Range(stdout) => Exited /\ exitCode = 0

C8_Witness ==
    /\ Exited
    /\ exitCode = 3
    /\ ReposMalformed
    /\ SecretsMalformed
    /\ ran = <<"load", "presence", "repos">>

---------------------------------------------------------------------------
(* C9 *)

\* C9: a run ends once, with an exit code among 0, 2, 3, 4; a SystemExit
\* raised by the loader ends it with 2 and one raised by the validator with
\* 3, as raised; 4 only ends a run in which a stage raised another
\* exception; 0 only ends a run in which load, validation and summary all
\* completed.
C9_ExitCodes ==
    /\ ~Exited => exitCode = -1
    /\ Exited =>
          /\ exitCode \in {0, 2, 3, 4}
          /\ ~ENABLED Next
          /\ exc.type = "SystemExit" =>
                /\ exitCode = exc.code
                /\ exitCode = IF ran = <<"load">> THEN 2 ELSE 3
          /\ exitCode = 4 <=> exc.type = "Exception"
          /\ exitCode = 0 <=> exc.type = "none"
          /\ exitCode = 0 => ran = StageOrder
          /\ exitCode = 2 => LoaderFailure
          /\ exitCode = 3 => Ran("presence") /\ ~Ran("summarize")

C9_Witness ==
    /\ Exited
    /\ exc.type = "SystemExit"
    /\ exitCode = 3
    /\ Ran("secrets")

---------------------------------------------------------------------------
(* C10 *)

FallbackTexts ==
    {"Repos:    <invalid type>", "Secrets:  <invalid type>", "<noname>", "<nourl>"}

\* the lines of stdout that are repo lines
PrintedRepoLines == {i \in DOMAIN stdout : stdout[i][1] = "  - "}

\* C10: in a run of main that has reached the summary the configuration has
\* the shape the validator accepts, none of the summarizer's fallback texts
\* is on stdout, and with repos present the number of repo lines is the
\* count on the Repos: line.
C10_FallbacksUnreachable ==
    Ran("summarize") =>
        /\ WellShaped
        /\ FallbackTexts \cap Tokens(stdout) = {}
        /\ "repos" \in DOMAIN cfg =>
              <<"Repos:    ", ToString(Cardinality(PrintedRepoLines))>> \in Range(stdout)

C10_Witness ==
    /\ Exited
    /\ Ran("summarize")
    /\ HasReposList
    /\ Len(ReposItems) = 2
    /\ Cardinality(PrintedRepoLines) = 2
    /\ HasSecretsMapping

====
